---- MODULE Spec2Model ----
(***************************************************************************)
(* Attendance API (src/functions/index.js): createSession, checkin and     *)
(* finalizeSession over the Firestore collections "sessions", "attendance" *)
(* and "students", and the API skeleton (src/unnamed/part_000) over the    *)
(* same collections.  Every await is one step of a call, so calls          *)
(* interleave exactly at the store operations; the clock may advance       *)
(* between two Date.now() of one synchronous stretch.                      *)
(***************************************************************************)
EXTENDS Integers, FiniteSets, Sequences, Bags, TLC

(* ------------------------------ bounds -------------------------------- *)
MaxNow == 2
MaxSessions == 1
MaxCheckins == 2
MaxFinalize == 2
MaxMixedCheckins == 1
MaxSerialCalls == 3

(* ------------------------- JavaScript values --------------------------- *)
\* A string-typed request field is a TLA+ string; Missing stands for a field
\* that is absent from the JSON body (undefined).
Missing == "<undefined>"

\* variant of Falsy: only an absent field counts, the empty string does not
FalsyOnlyUndefined(s) == s = Missing

Falsy(s) == s \in {Missing, ""}

\* `x || ""` on a string-typed field
OrEmpty(s) == IF Falsy(s) THEN "" ELSE s

\* A number-typed field is a tagged value: a finite number, Infinity (what
\* JSON.parse makes of 1e999), NaN, a (non-numeric, non-empty) string, or
\* undefined.
Undef == [t |-> "undefined", n |-> 0]

Num(k) == [t |-> "number", n |-> k]

Infinity == [t |-> "infinity", n |-> 0]

NaN == [t |-> "nan", n |-> 0]

NaS == [t |-> "string", n |-> 0]

Truthy(v) == (v.t = "number" /\ v.n # 0) \/ v.t \in {"string", "infinity"}

\* Number.isFinite: true only of finite numbers
IsFinite(v) == v.t = "number"

\* typeof v === "number": Infinity and NaN are numbers too
TypeofNumber(v) == v.t \in {"number", "infinity", "nan"}

\* a > b of JavaScript for a finite number a: false against Infinity and
\* NaN, and a non-numeric string converts to NaN
JsGt(a, v) == v.t = "number" /\ a > v.n

\* location values: null/undefined, or an object with lat and lng
NoLoc == [t |-> "null", lat |-> Undef, lng |-> Undef]

Loc(la, ln) == [t |-> "object", lat |-> la, lng |-> ln]

(* ------------------------------ utils ---------------------------------- *)
\* Coordinates are in units of 1e-4 degree.
P0 == Loc(Num(129716), Num(775946))

P1 == Loc(Num(129720), Num(775946))

P2 == Loc(Num(129800), Num(776000))

BadLoc == Loc(NaS, Num(775946))

\* a location whose latitude overflowed to Infinity
InfLoc == Loc(Infinity, Num(775946))

\* the points haversineDistance is evaluated at: three around the geofence,
\* the origin, the poles, both sides of the date line, and two far cities
Points ==
  {P0, P1, P2, Loc(Num(0), Num(0)), Loc(Num(900000), Num(0)), Loc(Num(-900000), Num(0)),
   Loc(Num(0), Num(1800000)), Loc(Num(0), Num(-1800000)),
   Loc(Num(-338688), Num(1512093)), Loc(Num(515074), Num(-1278))}

EARTH_RADIUS == 6371000

\* variant of haversineDistance: the signed sum of the coordinate differences
haversineDistanceSigned(lat1, lon1, lat2, lon2) == (lat2 - lat1) + (lon2 - lon1)

\* haversineDistance in whole metres, rounded up: for an integer threshold
\* T, d > T iff ceil(d) > T, so the comparison in checkin is exact.  With
\* dLat = dLon = 0 both sines are 0, so a = 0, c = 2 * atan2(0, 1) = 0 and the
\* result is EARTH_RADIUS * 0.  The other values are EARTH_RADIUS * 2 *
\* atan2(sqrt(a), sqrt(1 - a)) of the source, evaluated in double precision
\* for each ordered pair of the model's points.
haversineDistance(lat1, lon1, lat2, lon2) ==
  LET dLat == lat2 - lat1
      dLon == lon2 - lon1
      q == <<lat1, lon1, lat2, lon2>>
  IN  CASE dLat = 0 /\ dLon = 0 -> 0 * EARTH_RADIUS
        [] q = <<129716, 775946, 129720, 775946>> -> 45
        [] q = <<129716, 775946, 129800, 776000>> -> 1103
        [] q = <<129716, 775946, 0, 0>> -> 8663866
        [] q = <<129716, 775946, 900000, 0>> -> 8565168
        [] q = <<129716, 775946, -900000, 0>> -> 11449920
        [] q = <<129716, 775946, 0, 1800000>> -> 11351222
        [] q = <<129716, 775946, 0, -1800000>> -> 11351222
        [] q = <<129716, 775946, -338688, 1512093>> -> 9349162
        [] q = <<129716, 775946, 515074, -1278>> -> 8035158
        [] q = <<129720, 775946, 129716, 775946>> -> 45
        [] q = <<129720, 775946, 129800, 776000>> -> 1065
        [] q = <<129720, 775946, 0, 0>> -> 8663868
        [] q = <<129720, 775946, 900000, 0>> -> 8565123
        [] q = <<129720, 775946, -900000, 0>> -> 11449964
        [] q = <<129720, 775946, 0, 1800000>> -> 11351220
        [] q = <<129720, 775946, 0, -1800000>> -> 11351220
        [] q = <<129720, 775946, -338688, 1512093>> -> 9349189
        [] q = <<129720, 775946, 515074, -1278>> -> 8035124
        [] q = <<129800, 776000, 129716, 775946>> -> 1103
        [] q = <<129800, 776000, 129720, 775946>> -> 1065
        [] q = <<129800, 776000, 0, 0>> -> 8664496
        [] q = <<129800, 776000, 900000, 0>> -> 8564234
        [] q = <<129800, 776000, -900000, 0>> -> 11450854
        [] q = <<129800, 776000, 0, 1800000>> -> 11350592
        [] q = <<129800, 776000, 0, -1800000>> -> 11350592
        [] q = <<129800, 776000, -338688, 1512093>> -> 9349253
        [] q = <<129800, 776000, 515074, -1278>> -> 8034813
        [] q = <<0, 0, 129716, 775946>> -> 8663866
        [] q = <<0, 0, 129720, 775946>> -> 8663868
        [] q = <<0, 0, 129800, 776000>> -> 8664496
        [] q = <<0, 0, 900000, 0>> -> 10007544
        [] q = <<0, 0, -900000, 0>> -> 10007544
        [] q = <<0, 0, 0, 1800000>> -> 20015087
        [] q = <<0, 0, 0, -1800000>> -> 20015087
        [] q = <<0, 0, -338688, 1512093>> -> 15199451
        [] q = <<0, 0, 515074, -1278>> -> 5727375
        [] q = <<900000, 0, 129716, 775946>> -> 8565168
        [] q = <<900000, 0, 129720, 775946>> -> 8565123
        [] q = <<900000, 0, 129800, 776000>> -> 8564234
        [] q = <<900000, 0, 0, 0>> -> 10007544
        [] q = <<900000, 0, -900000, 0>> -> 20015087
        [] q = <<900000, 0, 0, 1800000>> -> 10007544
        [] q = <<900000, 0, 0, -1800000>> -> 10007544
        [] q = <<900000, 0, -338688, 1512093>> -> 13773583
        [] q = <<900000, 0, 515074, -1278>> -> 4280182
        [] q = <<-900000, 0, 129716, 775946>> -> 11449920
        [] q = <<-900000, 0, 129720, 775946>> -> 11449964
        [] q = <<-900000, 0, 129800, 776000>> -> 11450854
        [] q = <<-900000, 0, 0, 0>> -> 10007544
        [] q = <<-900000, 0, 900000, 0>> -> 20015087
        [] q = <<-900000, 0, 0, 1800000>> -> 10007544
        [] q = <<-900000, 0, 0, -1800000>> -> 10007544
        [] q = <<-900000, 0, -338688, 1512093>> -> 6241505
        [] q = <<-900000, 0, 515074, -1278>> -> 15734905
        [] q = <<0, 1800000, 129716, 775946>> -> 11351222
        [] q = <<0, 1800000, 129720, 775946>> -> 11351220
        [] q = <<0, 1800000, 129800, 776000>> -> 11350592
        [] q = <<0, 1800000, 0, 0>> -> 20015087
        [] q = <<0, 1800000, 900000, 0>> -> 10007544
        [] q = <<0, 1800000, -900000, 0>> -> 10007544
        [] q = <<0, 1800000, 0, -1800000>> -> 1
        [] q = <<0, 1800000, -338688, 1512093>> -> 4815637
        [] q = <<0, 1800000, 515074, -1278>> -> 14287713
        [] q = <<0, -1800000, 129716, 775946>> -> 11351222
        [] q = <<0, -1800000, 129720, 775946>> -> 11351220
        [] q = <<0, -1800000, 129800, 776000>> -> 11350592
        [] q = <<0, -1800000, 0, 0>> -> 20015087
        [] q = <<0, -1800000, 900000, 0>> -> 10007544
        [] q = <<0, -1800000, -900000, 0>> -> 10007544
        [] q = <<0, -1800000, 0, 1800000>> -> 1
        [] q = <<0, -1800000, -338688, 1512093>> -> 4815637
        [] q = <<0, -1800000, 515074, -1278>> -> 14287713
        [] q = <<-338688, 1512093, 129716, 775946>> -> 9349162
        [] q = <<-338688, 1512093, 129720, 775946>> -> 9349189
        [] q = <<-338688, 1512093, 129800, 776000>> -> 9349253
        [] q = <<-338688, 1512093, 0, 0>> -> 15199451
        [] q = <<-338688, 1512093, 900000, 0>> -> 13773583
        [] q = <<-338688, 1512093, -900000, 0>> -> 6241505
        [] q = <<-338688, 1512093, 0, 1800000>> -> 4815637
        [] q = <<-338688, 1512093, 0, -1800000>> -> 4815637
        [] q = <<-338688, 1512093, 515074, -1278>> -> 16993934
        [] q = <<515074, -1278, 129716, 775946>> -> 8035158
        [] q = <<515074, -1278, 129720, 775946>> -> 8035124
        [] q = <<515074, -1278, 129800, 776000>> -> 8034813
        [] q = <<515074, -1278, 0, 0>> -> 5727375
        [] q = <<515074, -1278, 900000, 0>> -> 4280182
        [] q = <<515074, -1278, -900000, 0>> -> 15734905
        [] q = <<515074, -1278, 0, 1800000>> -> 14287713
        [] q = <<515074, -1278, 0, -1800000>> -> 14287713
        [] q = <<515074, -1278, -338688, 1512093>> -> 16993934

(* ------------------------------ state ---------------------------------- *)
VARIABLES
  now,          \* Date.now(), in milliseconds
  sessions,     \* collection "sessions": document id -> document
  attendance,   \* collection "attendance": a bag of documents (ids are unused)
  roster,       \* collection "students"
  createResp,   \* the latest createSession call: its body and its response
  checkins,     \* the checkin calls, a bag: position, locals, response
  finals,       \* the finalizeSession calls, a bag: position, locals, response
  creating,     \* the createSession calls waiting for sessionRef.set
  measured,     \* the latest haversineDistance evaluation: arguments and result
  skeleton      \* the calls of the API skeleton (src/unnamed/part_000), a bag

vars == <<now, sessions, attendance, roster, createResp, checkins, finals, creating, measured, skeleton>>

(* ---------------------------- documents -------------------------------- *)
\* the value of a local that has not been assigned yet; a session document
\* carries the fields either createSession handler writes, sessionId and
\* endTs being absent (Missing, Undef) from those of src/functions/index.js
NullSession ==
  [courseId |-> "", startTs |-> Undef, expiresAt |-> Undef, token |-> "",
   createdAt |-> 0, location |-> NoLoc, thresholdMeters |-> Undef,
   sessionId |-> Missing, endTs |-> Undef]

NullRecord ==
  [studentId |-> "", studentName |-> "", courseId |-> "", sessionId |-> "",
   timestamp |-> 0, status |-> "", verified |-> FALSE, distanceMeters |-> Undef]

\* an attendance document; distanceMeters is Undef when the field is absent
Record(studentId, studentName, courseId, sessionId, ts, status, verified, dist) ==
  [studentId |-> studentId, studentName |-> studentName, courseId |-> courseId,
   sessionId |-> sessionId, timestamp |-> ts, status |-> status,
   verified |-> verified, distanceMeters |-> dist]

\* an HTTP response: status code and the fields of the JSON body
Response(status, ok, error) ==
  [status |-> status, ok |-> ok, error |-> error, verified |-> FALSE,
   distanceMeters |-> Undef, threshold |-> Undef, absentsAdded |-> -1]

NoResponse == Response(0, FALSE, "")

ServerError == Response(500, FALSE, "server_error")

(* ------------------------------ inputs --------------------------------- *)
IdNames == <<"a1", "a2", "a3", "a4">>

\* the identifiers sessionRef = db.collection("sessions").doc() can draw
IdPool == {IdNames[i] : i \in 1..MaxSessions}

\* the identifier drawn where check-ins and finalizations run: they read and
\* write the documents of the one session their body names
OneId == {IdNames[1]}

StudentE1 == [studentId |-> "s1", name |-> "Ann", courseId |-> "CS101"]

StudentE2 == [studentId |-> "s2", name |-> Missing, courseId |-> Missing]

StudentNoId == [studentId |-> Missing, name |-> "Zed", courseId |-> "CS101"]

\* the documents of "students", in the order the query returns them
Rosters == {<<StudentE1, StudentE2, StudentNoId>>, <<StudentE2>>}

CreateBody(courseId, startTs, expiresAt, location, thresholdMeters) ==
  [courseId |-> courseId, startTs |-> startTs, expiresAt |-> expiresAt,
   location |-> location, thresholdMeters |-> thresholdMeters]

\* the createSession bodies: each falsy value of courseId, the body with
\* only a courseId, and each field in turn supplied, falsy or malformed
AllCreateBodies ==
  {CreateBody(c, Undef, Undef, NoLoc, Undef) : c \in {Missing, "", "CS101"}}
  \cup {CreateBody("CS101", Num(5), Undef, NoLoc, Undef),
        CreateBody("CS101", Undef, Num(1), NoLoc, Undef),
        CreateBody("CS101", Undef, Num(0), NoLoc, Undef),
        CreateBody("CS101", Undef, Undef, P0, Undef),
        CreateBody("CS101", Undef, Undef, BadLoc, Undef),
        CreateBody("CS101", Undef, Undef, NoLoc, Num(45)),
        CreateBody("CS101", Undef, Undef, NoLoc, Num(0)),
        CreateBody("CS101", Undef, Undef, NoLoc, NaS),
        CreateBody("CS101", Undef, Undef, NoLoc, Infinity),
        CreateBody("", Num(5), Num(1), P0, Num(45))}

\* the bodies used where check-ins run as well; startTs, which no check-in
\* reads, is supplied
CreateBodies ==
  {CreateBody("CS101", Num(1), Undef, P0, Undef),
   CreateBody("CS101", Num(1), Undef, P0, Num(0)),
   CreateBody("CS101", Num(1), Num(1), P0, Undef),
   CreateBody("CS101", Num(1), Undef, NoLoc, Undef),
   CreateBody("CS101", Num(1), Num(1), BadLoc, NaS),
   CreateBody(Missing, Undef, Undef, P0, Undef)}

CheckinBody(sessionToken, studentId, studentName, location) ==
  [sessionToken |-> sessionToken, studentId |-> studentId,
   studentName |-> studentName, location |-> location]

CheckinBodies ==
  {CheckinBody(k, "s1", "Ann", l) : k \in OneId, l \in {NoLoc, P0, P1}}
  \cup {CheckinBody(k, "s2", Missing, l) : k \in OneId, l \in {BadLoc, P0}}
  \cup {CheckinBody(Missing, "s1", "Ann", P0), CheckinBody(IdNames[1], "", Missing, P0)}

\* the bodies used where all three operations run together
FewCreateBodies == {CreateBody("CS101", Num(1), Undef, P0, Undef)}

FewCheckinBodies ==
  {CheckinBody(k, "s1", "Ann", P2) : k \in OneId}
  \cup {CheckinBody(k, "s2", Missing, P0) : k \in OneId}

\* the bodies used where the calls do not overlap: a session with a geofence
\* and the default expiry, one that expires at time 1, one without geofence
SerialCreateBodies ==
  {CreateBody("CS101", Num(1), Undef, P0, Undef),
   CreateBody("CS101", Num(1), Num(1), P0, Undef),
   CreateBody("CS101", Num(1), Undef, NoLoc, Undef)}

SerialCheckinBodies ==
  {CheckinBody(k, "s1", "Ann", l) : k \in OneId, l \in {NoLoc, P1}}
  \cup {CheckinBody(k, "s2", Missing, P2) : k \in OneId}

\* the bodies used where the geofence decides: sessions with threshold 100
\* and 0 and one whose latitude is Infinity; check-ins at the centre, far
\* from it and with a latitude of Infinity
GeofenceCreateBodies ==
  {CreateBody("CS101", Undef, Undef, P0, Undef),
   CreateBody("CS101", Undef, Undef, P0, Num(0)),
   CreateBody("CS101", Undef, Undef, InfLoc, Undef)}

GeofenceCheckinBodies ==
  {CheckinBody(k, "s1", "Ann", l) : k \in OneId, l \in {P0, P2}}
  \cup {CheckinBody(k, "s2", Missing, InfLoc) : k \in OneId}

FinalizeBodies == {[sessionId |-> k] : k \in OneId \cup {Missing}}

\* the finalizeSession bodies used where the calls do not overlap
SerialFinalizeBodies == {[sessionId |-> k] : k \in OneId}

(* --------------------------- initial state ----------------------------- *)
NoSessions == [k \in {} |-> NullSession]

\* the attendance documents of student s for session k
DocsOf(s, k) == {r \in DOMAIN attendance : r.studentId = s /\ r.sessionId = k}

NotTracked == "not tracked"

\* where the clock stands against the expiresAt of session k: "after" it,
\* "at" it, or "open" when it is before it, when the session does not exist
\* or when expiresAt is not a number that can be passed
ClockAgainstExpiry(k) ==
  IF k \notin DOMAIN sessions THEN "open"
  ELSE LET e == sessions[k].expiresAt
       IN  IF e.t # "number" \/ e.n = 0 THEN "open"
           ELSE IF now > e.n THEN "after"
           ELSE IF now = e.n THEN "at"
           ELSE "open"

\* a checkin call as it arrives: body is req.body, session, rec and res are
\* the handler's locals and its response, wrote counts the documents it has
\* added, hadPresent and hadAny record what the store held for the body's
\* (studentId, sessionId) pair when the call arrived, arrived where the
\* clock stood against the session's expiresAt then (NotTracked where no
\* property refers to it)
NewCheckin(b, hadPresent, hadAny, arrived) ==
  [pc |-> "start", body |-> b, session |-> NullSession, rec |-> NullRecord,
   res |-> NoResponse, wrote |-> 0, hadPresent |-> hadPresent, hadAny |-> hadAny,
   arrived |-> arrived]

\* a finalizeSession call as it arrives: presentIds, batch and absents are
\* the handler's locals, wrote counts the documents it has added
NewFinalize(b) ==
  [pc |-> "start", body |-> b, presentIds |-> {}, batch |-> EmptyBag, absents |-> 0,
   res |-> NoResponse, wrote |-> 0]

NoCreateResp ==
  [body |-> CreateBody("", Undef, Undef, NoLoc, Undef), res |-> NoResponse,
   sessionId |-> "", token |-> "", session |-> NullSession]

NoMeasure == [from |-> NoLoc, to |-> NoLoc, meters |-> -1]

\* the state after deployment, the students collection being one of R
InitRoster(R) ==
  /\ now = 1
  /\ sessions = NoSessions
  /\ attendance = EmptyBag
  /\ roster \in R
  /\ createResp = NoCreateResp
  /\ checkins = EmptyBag
  /\ finals = EmptyBag
  /\ creating = {}
  /\ measured = NoMeasure
  /\ skeleton = EmptyBag

Init == InitRoster(Rosters)

\* the initial state with the roster of three documents
InitThree == InitRoster({<<StudentE1, StudentE2, StudentNoId>>})

\* the initial state where no operation reads the students collection
InitUnread == InitRoster({<<StudentE2>>})

\* the clock advances between any two steps
Tick ==
  /\ now < MaxNow
  /\ now' = now + 1
  /\ UNCHANGED <<sessions, attendance, roster, createResp, checkins, finals, creating, measured, skeleton>>

(* --------------------------- createSession ----------------------------- *)
\* the values n consecutive Date.now() calls of one synchronous stretch of a
\* handler can return: the first reads the clock as it stands, and the clock
\* may advance between two reads
ClockReads(n) ==
  {c \in [1..n -> now..MaxNow] : c[1] = now /\ \A i \in 1..(n - 1) : c[i] <= c[i + 1]}

\* variant of NewSession: the default expiry is 15 * 60, the interval in
\* seconds, after the reading of the clock
NewSessionSeconds(b, id, c) ==
  [courseId |-> b.courseId,
   startTs |-> IF Truthy(b.startTs) THEN b.startTs ELSE Num(c[1]),
   expiresAt |-> IF Truthy(b.expiresAt) THEN b.expiresAt ELSE Num(c[2] + 15 * 60),
   token |-> id,
   createdAt |-> c[3],
   location |-> IF b.location.t = "object" THEN b.location ELSE NoLoc,
   thresholdMeters |-> IF IsFinite(b.thresholdMeters) THEN b.thresholdMeters ELSE Num(100),
   sessionId |-> Missing, endTs |-> Undef]

\* the document createSession builds for body b under identifier id; c[1],
\* c[2] and c[3] are what Date.now() returns at lines 53, 54 and 56
NewSession(b, id, c) ==
  [courseId |-> b.courseId,
   startTs |-> IF Truthy(b.startTs) THEN b.startTs ELSE Num(c[1]),
   expiresAt |-> IF Truthy(b.expiresAt) THEN b.expiresAt ELSE Num(c[2] + 15 * 60 * 1000),
   token |-> id,
   createdAt |-> c[3],
   location |-> IF b.location.t = "object" THEN b.location ELSE NoLoc,
   thresholdMeters |-> IF IsFinite(b.thresholdMeters) THEN b.thresholdMeters ELSE Num(100),
   sessionId |-> Missing, endTs |-> Undef]

\* the identifiers of the createSession calls whose set() is pending, those
\* of the skeleton's handler included
Creating ==
  {c.session.token : c \in creating}
  \cup {x.doc.sessionId : x \in {y \in BagToSet(skeleton) : y.pc = "set"}}

\* POST /createSession with a missing or empty courseId: answered at once
CreateSessionMissing(b) ==
  /\ Falsy(b.courseId)
  /\ createResp' = [NoCreateResp EXCEPT !.body = b,
                      !.res = Response(400, FALSE, "missing_courseId")]
  /\ UNCHANGED <<now, creating>>

\* POST /createSession with a courseId, up to the call of sessionRef.set:
\* doc() draws the identifier, the session is built from the body and three
\* readings of the clock, and the call waits for the store
CreateSessionSet(b, pool) ==
  /\ ~Falsy(b.courseId)
  /\ \E id \in pool \ (DOMAIN sessions \cup Creating) : \E c \in ClockReads(3) :
       /\ creating' = creating \cup {[body |-> b, session |-> NewSession(b, id, c)]}
       /\ now' = c[3]
  /\ UNCHANGED createResp

\* POST /createSession arrives, while pool holds an identifier not yet drawn
CreateSession(b, pool) ==
  /\ pool \ (DOMAIN sessions \cup Creating) # {}
  /\ CreateSessionMissing(b) \/ CreateSessionSet(b, pool)
  /\ UNCHANGED <<sessions, attendance, roster, checkins, finals, measured, skeleton>>

\* await sessionRef.set(session) returns: the document is stored and the
\* call answers with it
CreateSessionOk(c) ==
  LET id == c.session.token IN
  /\ c \in creating
  /\ creating' = creating \ {c}
  /\ sessions' = [k \in DOMAIN sessions \cup {id} |->
                    IF k = id THEN c.session ELSE sessions[k]]
  /\ createResp' = [body |-> c.body, res |-> Response(200, TRUE, ""),
                    sessionId |-> id, token |-> id, session |-> c.session]
  /\ UNCHANGED <<now, attendance, roster, checkins, finals, measured, skeleton>>

\* await sessionRef.set(session) throws: the catch block
CreateSessionFail(c) ==
  /\ c \in creating
  /\ creating' = creating \ {c}
  /\ createResp' = [NoCreateResp EXCEPT !.body = c.body, !.res = ServerError]
  /\ UNCHANGED <<now, sessions, attendance, roster, checkins, finals, measured, skeleton>>

(* ------------------------------ checkin -------------------------------- *)
\* bag B with one copy of x replaced by y
Replace(B, x, y) == (B (-) SetToBag({x})) (+) SetToBag({y})

\* the copies of the elements of bag B that satisfy P
SubBagOf(B, P(_)) == [r \in {x \in BagToSet(B) : P(x)} |-> B[r]]

\* variant of ExistingFor: only "present" documents are matched
ExistingForPresentOnly(k, s) ==
  {r \in BagToSet(attendance) : r.sessionId = k /\ r.studentId = s /\ r.status = "present"}

\* variant of ExistingFor: the two filter values are swapped
ExistingForSwapped(k, s) ==
  {r \in BagToSet(attendance) : r.sessionId = s /\ r.studentId = k}

\* db.collection("attendance").where("sessionId", "==", k).where("studentId", "==", s)
ExistingFor(k, s) == {r \in BagToSet(attendance) : r.sessionId = k /\ r.studentId = s}

ValidLoc(l) == l.t = "object" /\ TypeofNumber(l.lat) /\ TypeofNumber(l.lng)

\* const threshold = Number.isFinite(session.thresholdMeters) ? ... : 100
Threshold(session) ==
  IF IsFinite(session.thresholdMeters) THEN session.thresholdMeters.n ELSE 100

\* const distanceMeters = haversineDistance(location.lat, location.lng,
\* session.location.lat, session.location.lng), as a JavaScript number: with
\* a coordinate that is not finite a difference or a cosine is NaN or the
\* sine of an infinite angle is, so a, c and the product are NaN
DistanceTo(l, session) ==
  IF /\ IsFinite(l.lat) /\ IsFinite(l.lng)
     /\ IsFinite(session.location.lat) /\ IsFinite(session.location.lng)
    THEN Num(haversineDistance(l.lat.n, l.lng.n,
                               session.location.lat.n, session.location.lng.n))
    ELSE NaN

\* variant of OutOfRange: the boundary is rejected
OutOfRangeInclusive(distanceMeters, threshold) ==
  distanceMeters.t = "number" /\ distanceMeters.n >= threshold

\* distanceMeters > threshold: false when distanceMeters is NaN
OutOfRange(distanceMeters, threshold) ==
  distanceMeters.t = "number" /\ distanceMeters.n > threshold

\* variant of Classify: the session's geofence is examined before the
\* client's location
ClassifySessionFirst(b, session) ==
  IF ~ValidLoc(session.location) THEN "rejected_no_session_location"
  ELSE IF ~ValidLoc(b.location) THEN "rejected_no_location"
  ELSE IF OutOfRange(DistanceTo(b.location, session), Threshold(session))
    THEN "rejected_out_of_range"
  ELSE "present"

\* variant of Classify: the second rejection block carries the first one's status
ClassifyCopied(b, session) ==
  IF ~ValidLoc(b.location) THEN "rejected_no_location"
  ELSE IF ~ValidLoc(session.location) THEN "rejected_no_location"
  ELSE IF OutOfRange(DistanceTo(b.location, session), Threshold(session))
    THEN "rejected_out_of_range"
  ELSE "present"

\* the status checkin gives a request that passed the duplicate check
Classify(b, session) ==
  IF ~ValidLoc(b.location) THEN "rejected_no_location"
  ELSE IF ~ValidLoc(session.location) THEN "rejected_no_session_location"
  ELSE IF OutOfRange(DistanceTo(b.location, session), Threshold(session))
    THEN "rejected_out_of_range"
  ELSE "present"

\* variant of CheckinRecord: only a "present" document carries distanceMeters
CheckinRecordPresentDistance(b, session) ==
  LET status == Classify(b, session)
  IN  Record(b.studentId, OrEmpty(b.studentName), OrEmpty(session.courseId),
             b.sessionToken, now, status, status = "present",
             IF status = "present" THEN DistanceTo(b.location, session) ELSE Undef)

\* the document checkin adds for body b
CheckinRecord(b, session) ==
  LET status == Classify(b, session)
  IN  Record(b.studentId, OrEmpty(b.studentName), OrEmpty(session.courseId),
             b.sessionToken, now, status, status = "present",
             IF status \in {"rejected_out_of_range", "present"}
               THEN DistanceTo(b.location, session) ELSE Undef)

\* variant of CheckinResponse: an out-of-range rejection answers location_required
CheckinResponseMixed(rec, session) ==
  CASE rec.status \in {"rejected_no_location", "rejected_out_of_range"} ->
         Response(400, FALSE, "location_required")
    [] rec.status = "rejected_no_session_location" ->
         Response(400, FALSE, "session_has_no_location")
    [] rec.status = "present" ->
         [Response(200, TRUE, "") EXCEPT
            !.verified = TRUE, !.distanceMeters = rec.distanceMeters]

\* the response checkin sends after adding document rec
CheckinResponse(rec, session) ==
  CASE rec.status = "rejected_no_location" -> Response(400, FALSE, "location_required")
    [] rec.status = "rejected_no_session_location" ->
         Response(400, FALSE, "session_has_no_location")
    [] rec.status = "rejected_out_of_range" ->
         [Response(400, FALSE, "out_of_range") EXCEPT
            !.distanceMeters = rec.distanceMeters, !.threshold = Num(Threshold(session))]
    [] rec.status = "present" ->
         [Response(200, TRUE, "") EXCEPT
            !.verified = TRUE, !.distanceMeters = rec.distanceMeters]

CheckinFrame == UNCHANGED <<now, sessions, roster, createResp, finals, creating, measured, skeleton>>

\* variant of Expired: the instant expiresAt itself counts as expired
ExpiredInclusive(session) ==
  Truthy(session.expiresAt) /\ session.expiresAt.t = "number" /\ now >= session.expiresAt.n

\* the session's expiry check: session.expiresAt && Date.now() > session.expiresAt
Expired(session) == Truthy(session.expiresAt) /\ JsGt(now, session.expiresAt)

\* variant of MissingParams: && in place of ||
MissingParamsBoth(b) == Falsy(b.sessionToken) /\ Falsy(b.studentId)

\* !sessionToken || !studentId
MissingParams(b) == Falsy(b.sessionToken) \/ Falsy(b.studentId)

\* POST /checkin arrives: the parameter check
CheckinInvoke(b, limit, arrived) ==
  LET x == NewCheckin(b,
             \E r \in DocsOf(b.studentId, b.sessionToken) : r.status = "present",
             DocsOf(b.studentId, b.sessionToken) # {},
             arrived)
  IN
  /\ BagCardinality(checkins) < limit
  /\ checkins' = checkins (+) SetToBag({
       IF MissingParams(b)
         THEN [x EXCEPT !.pc = "done", !.res = Response(400, FALSE, "missing_params")]
         ELSE [x EXCEPT !.pc = "getSession"]})
  /\ UNCHANGED attendance
  /\ CheckinFrame

\* await sessRef.get() returns: the session lookup and the expiry check
CheckinGetSession(x) ==
  LET k == x.body.sessionToken IN
  /\ x.pc = "getSession"
  /\ checkins' = Replace(checkins, x,
       IF k \notin DOMAIN sessions
         THEN [x EXCEPT !.pc = "done", !.res = Response(400, FALSE, "invalid_session")]
       ELSE IF Expired(sessions[k])
         THEN [x EXCEPT !.pc = "done", !.session = sessions[k],
                        !.res = Response(400, FALSE, "session_expired")]
       ELSE [x EXCEPT !.pc = "dupQuery", !.session = sessions[k]])
  /\ UNCHANGED attendance
  /\ CheckinFrame

\* the duplicate query returns: the duplicate check, then the classification
\* up to the call of add()
CheckinDupQuery(x) ==
  /\ x.pc = "dupQuery"
  /\ checkins' = Replace(checkins, x,
       IF ExistingFor(x.body.sessionToken, x.body.studentId) # {}
         THEN [x EXCEPT !.pc = "done", !.res = Response(200, FALSE, "already_checked_in")]
         ELSE [x EXCEPT !.pc = "add", !.rec = CheckinRecord(x.body, x.session)])
  /\ UNCHANGED attendance
  /\ CheckinFrame

\* await db.collection("attendance").add(rec) returns
CheckinAdd(x) ==
  /\ x.pc = "add"
  /\ attendance' = attendance (+) SetToBag({x.rec})
  /\ checkins' = Replace(checkins, x,
       [x EXCEPT !.pc = "done", !.wrote = x.wrote + 1,
                 !.res = CheckinResponse(x.rec, x.session)])
  /\ CheckinFrame

\* variant of CheckinStoreError: a failed add() is retried and the retry
\* succeeds before the call answers server_error
CheckinStoreErrorRetrying(x) ==
  /\ x.pc \in {"getSession", "dupQuery", "add"}
  /\ checkins' = Replace(checkins, x, [x EXCEPT !.pc = "done", !.res = ServerError])
  /\ attendance' = IF x.pc = "add" THEN attendance (+) SetToBag({x.rec}) ELSE attendance
  /\ CheckinFrame

\* a store operation of checkin throws: the catch block
CheckinStoreError(x) ==
  /\ x.pc \in {"getSession", "dupQuery", "add"}
  /\ checkins' = Replace(checkins, x, [x EXCEPT !.pc = "done", !.res = ServerError])
  /\ UNCHANGED attendance
  /\ CheckinFrame

(* --------------------------- finalizeSession --------------------------- *)
FinalizeFrame == UNCHANGED <<sessions, roster, createResp, checkins, creating, measured, skeleton>>

\* variant of PresentIds: the set collects studentName in place of studentId
PresentIdsByName(k) ==
  {r.studentName : r \in {x \in BagToSet(attendance) : x.sessionId = k /\ x.status = "present"}}

\* variant of PresentIds: a document of any status counts
PresentIdsAnyStatus(k) ==
  {r.studentId : r \in {x \in BagToSet(attendance) : x.sessionId = k}}

\* presentIds: the students with a "present" document among the session's
PresentIds(k) ==
  {r.studentId : r \in {x \in BagToSet(attendance) : x.sessionId = k /\ x.status = "present"}}

\* variant of Absentees: the present set is ignored
AbsenteesAll(present) == {i \in DOMAIN roster : ~Falsy(roster[i].studentId)}

\* variant of Absentees: a student who has an "absent" document is skipped
AbsenteesOnce(present) ==
  {i \in DOMAIN roster :
     /\ ~Falsy(roster[i].studentId)
     /\ roster[i].studentId \notin present
     /\ ~\E r \in BagToSet(attendance) :
           r.studentId = roster[i].studentId /\ r.status = "absent"}

\* the positions of the roster documents the loop writes an "absent"
\* document for
Absentees(present) ==
  {i \in DOMAIN roster : ~Falsy(roster[i].studentId) /\ roster[i].studentId \notin present}

\* the document batch.set receives for roster document s, Date.now() being t
AbsentRecord(s, k, t) ==
  Record(s.studentId, OrEmpty(s.name), OrEmpty(s.courseId), k, t, "absent", FALSE, Undef)

\* the batch after rosterSnap.forEach: one document for each position in A, in
\* roster order, the j-th of them stamped with the j-th clock reading c[j]
Batch(A, k, c) ==
  LET doc(i) == AbsentRecord(roster[i], k, c[Cardinality({j \in A : j <= i})])
  IN  [r \in {doc(i) : i \in A} |-> Cardinality({i \in A : doc(i) = r})]

\* the finalizeSession calls for session k
FinalsFor(k) == SubBagOf(finals, LAMBDA y : y.body.sessionId = k)

\* POST /finalizeSession arrives: the parameter check, then both reads of
\* Promise.all are issued
FinalizeInvoke(b, limit) ==
  LET x == NewFinalize(b) IN
  /\ BagCardinality(finals) < limit
  /\ finals' = finals (+) SetToBag({
       IF Falsy(b.sessionId)
         THEN [x EXCEPT !.pc = "done", !.res = Response(400, FALSE, "missing_sessionId")]
         ELSE [x EXCEPT !.pc = "read"]})
  /\ UNCHANGED <<now, attendance>>
  /\ FinalizeFrame

\* Promise.all has resolved: presentIds is the present set of the attendance
\* snapshot, the loop over the roster builds the batch and reads the clock
\* once for every document it sets, up to the call of batch.commit
FinalizeLoop(x, present) ==
  LET k == x.body.sessionId
      A == Absentees(present)
      n == Cardinality(A)
  IN
  IF n > 0
    THEN \E c \in ClockReads(n) :
           /\ finals' = Replace(finals, x,
                [x EXCEPT !.pc = "commit", !.presentIds = present,
                          !.batch = Batch(A, k, c), !.absents = n])
           /\ now' = c[n]
    ELSE /\ finals' = Replace(finals, x,
                [x EXCEPT !.pc = "done", !.presentIds = present,
                          !.res = [Response(200, TRUE, "") EXCEPT !.absentsAdded = 0]])
         /\ now' = now

\* the attendance query of Promise.all returns; presentIds, a function of
\* this snapshot alone, is kept in its place
FinalizeReadAttendance(x) ==
  /\ x.pc \in {"read", "readAttendance"}
  /\ IF x.pc = "read"
       THEN /\ finals' = Replace(finals, x,
                   [x EXCEPT !.pc = "readStudents",
                             !.presentIds = PresentIds(x.body.sessionId)])
            /\ now' = now
       ELSE FinalizeLoop(x, PresentIds(x.body.sessionId))
  /\ UNCHANGED attendance
  /\ FinalizeFrame

\* the students query of Promise.all returns (no operation writes the
\* collection, so the snapshot is the roster)
FinalizeReadStudents(x) ==
  /\ x.pc \in {"read", "readStudents"}
  /\ IF x.pc = "read"
       THEN /\ finals' = Replace(finals, x, [x EXCEPT !.pc = "readAttendance"])
            /\ now' = now
       ELSE FinalizeLoop(x, x.presentIds)
  /\ UNCHANGED attendance
  /\ FinalizeFrame

\* variant of FinalizeCommit: the batch replaces the collection's documents
FinalizeCommitReplacing(x) ==
  /\ x.pc = "commit"
  /\ attendance' = x.batch
  /\ finals' = Replace(finals, x,
       [x EXCEPT !.pc = "done", !.wrote = BagCardinality(x.batch),
                 !.res = [Response(200, TRUE, "") EXCEPT !.absentsAdded = x.absents]])
  /\ UNCHANGED now
  /\ FinalizeFrame

\* await batch.commit() returns
FinalizeCommit(x) ==
  /\ x.pc = "commit"
  /\ attendance' = attendance (+) x.batch
  /\ finals' = Replace(finals, x,
       [x EXCEPT !.pc = "done", !.wrote = BagCardinality(x.batch),
                 !.res = [Response(200, TRUE, "") EXCEPT !.absentsAdded = x.absents]])
  /\ UNCHANGED now
  /\ FinalizeFrame

\* a store operation of finalizeSession throws: the catch block
FinalizeStoreError(x) ==
  /\ x.pc \in {"read", "readAttendance", "readStudents", "commit"}
  /\ finals' = Replace(finals, x, [x EXCEPT !.pc = "done", !.res = ServerError])
  /\ UNCHANGED <<now, attendance>>
  /\ FinalizeFrame

(* ------------------- API skeleton: src/unnamed/part_000 ---------------- *)
\* The skeleton is a second Express app over the same collections: its
\* createSession signs a short-lived token, its checkin finds the session by
\* the token's courseId and checks no location.

\* a session token: the payload jwt.sign receives, exp in seconds, and
\* whether the signature was made with SESSION_SECRET
Jwt(courseId, startTs, exp) ==
  [t |-> "jwt", courseId |-> courseId, startTs |-> startTs, exp |-> exp, signed |-> TRUE]

NoToken == [t |-> "undefined", courseId |-> "", startTs |-> Undef, exp |-> 0, signed |-> FALSE]

\* a token signed with another secret
Forged == [Jwt("CS101", Num(1), 900) EXCEPT !.signed = FALSE]

\* jwt.verify(sessionToken, SESSION_SECRET), which reads the clock itself
\* and finds it at t: the signature holds and the clock, in seconds, has not
\* reached exp
Verify(tok, t) == tok.signed /\ (t \div 1000) < tok.exp

\* a response of the skeleton: ok is TRUE when the body carries ok: true;
\* the sessionId, sessionToken and record of a 201 body are the call's locals
SkeletonResponse(status, ok, error, message) ==
  [status |-> status, ok |-> ok, error |-> error, message |-> message]

NoSkeletonResponse == SkeletonResponse(0, FALSE, "", "")

SkeletonCreateBody(courseId, startTs, durationMinutes) ==
  [courseId |-> courseId, startTs |-> startTs, durationMinutes |-> durationMinutes]

SkeletonCreateBodies == {SkeletonCreateBody("CS101", Num(1), Undef)}

\* those, and the bodies whose startTs or durationMinutes is not a finite
\* number
AllSkeletonCreateBodies ==
  SkeletonCreateBodies
  \cup {SkeletonCreateBody("CS101", Undef, Num(1)),
        SkeletonCreateBody(Missing, Num(1), Undef),
        SkeletonCreateBody("CS101", Num(1), Num(1)),
        SkeletonCreateBody("CS101", Num(1), Infinity),
        SkeletonCreateBody("CS101", Num(1), NaS),
        SkeletonCreateBody("CS101", Infinity, Undef),
        SkeletonCreateBody("CS101", Infinity, NaS),
        SkeletonCreateBody("CS101", NaS, Num(1)),
        SkeletonCreateBody("CS101", Num(0), Num(1)),
        SkeletonCreateBody("", Num(1), Num(1))}

\* the bodies sent to the createSession of src/functions/index.js where the
\* skeleton runs beside it: an expiresAt of Infinity is stored as it is
OtherCreateBodies ==
  {CreateBody("CS101", Num(1), Num(900000), NoLoc, Undef),
   CreateBody("CS101", Num(1), Infinity, NoLoc, Undef)}

\* auth is the Authorization header: none, one verifyIdToken accepts (for
\* uid "u1"), or one it rejects
SkeletonCheckinBody(sessionToken, studentId, auth) ==
  [sessionToken |-> sessionToken, studentId |-> studentId, auth |-> auth]

SkeletonCheckinBodies ==
  {SkeletonCheckinBody(Jwt("CS101", Num(1), 900), "s1", a) : a \in {"none", "valid"}}

\* those, and the bodies the checks before the sessions query turn away
AllSkeletonCheckinBodies ==
  SkeletonCheckinBodies
  \cup {SkeletonCheckinBody(NoToken, "s1", "none"),
        SkeletonCheckinBody(Forged, "s1", "none"),
        SkeletonCheckinBody(Jwt("CS101", Num(1), 0), "s1", "none"),
        SkeletonCheckinBody(Jwt("", Num(1), 900), "s1", "none"),
        SkeletonCheckinBody(Jwt("CS101", Num(1), 900), "s1", "invalid"),
        SkeletonCheckinBody(Jwt("CS101", Num(1), 900), Missing, "invalid"),
        SkeletonCheckinBody(Jwt("CS101", Num(1), 900), Missing, "valid")}

\* a call of the skeleton as it arrives; uid, courseId, studentId, now,
\* sessionId, rec (checkin) and doc, token (createSession) are the handler's
\* locals
NewSkeletonCall(op, b) ==
  [op |-> op, pc |-> "start", body |-> b, uid |-> Missing, courseId |-> "",
   studentId |-> Missing, now |-> 0, sessionId |-> Missing, doc |-> NullSession,
   token |-> NoToken, rec |-> NullRecord, res |-> NoSkeletonResponse]

SkeletonCalls(op) == SubBagOf(skeleton, LAMBDA x : x.op = op)

SkeletonFrame == UNCHANGED <<roster, createResp, checkins, finals, creating, measured>>

\* v * k of JavaScript for a finite k > 0: a non-numeric string converts to
\* NaN
JsTimes(v, k) ==
  CASE v.t = "number" -> Num(v.n * k)
    [] v.t = "infinity" -> Infinity
    [] OTHER -> NaN

\* a + v of JavaScript for a number v: a string a is concatenated with v and
\* stays a string, NaN absorbs, then Infinity
JsPlus(a, v) ==
  CASE a.t = "string" -> NaS
    [] a.t = "nan" \/ v.t = "nan" -> NaN
    [] a.t = "infinity" \/ v.t = "infinity" -> Infinity
    [] OTHER -> Num(a.n + v.n)

\* startTs + durationMinutes * 60 * 1000, durationMinutes defaulting to 60
\* when the body has none
EndTs(b) ==
  LET dm == IF b.durationMinutes = Undef THEN Num(60) ELSE b.durationMinutes
  IN  JsPlus(b.startTs, JsTimes(dm, 60 * 1000))

\* the document the skeleton's createSession stores under identifier id;
\* c[1] and c[2] are the two readings of Date.now()
SkeletonSession(b, id, c) ==
  [NullSession EXCEPT
     !.sessionId = id, !.courseId = b.courseId, !.startTs = b.startTs,
     !.endTs = EndTs(b), !.createdAt = c[2],
     !.expiresAt = Num(((c[1] \div 1000) + 15 * 60) * 1000),
     !.token = Missing]

\* POST /createSession of the skeleton, up to the call of sessionRef.set
SkeletonCreateSession(b, pool, limit) ==
  LET x == NewSkeletonCall("createSession", b) IN
  /\ BagCardinality(SkeletonCalls("createSession")) < limit
  /\ pool \ (DOMAIN sessions \cup Creating) # {}
  /\ IF Falsy(b.courseId) \/ ~Truthy(b.startTs)
       THEN /\ skeleton' = skeleton (+) SetToBag({
                 [x EXCEPT !.pc = "done",
                    !.res = SkeletonResponse(400, FALSE, "courseId and startTs required", "")]})
            /\ now' = now
       ELSE \E id \in pool \ (DOMAIN sessions \cup Creating) : \E c \in ClockReads(2) :
              /\ skeleton' = skeleton (+) SetToBag({
                   [x EXCEPT !.pc = "set", !.doc = SkeletonSession(b, id, c),
                      !.token = Jwt(b.courseId, b.startTs, (c[1] \div 1000) + 15 * 60)]})
              /\ now' = c[2]
  /\ UNCHANGED <<sessions, attendance>>
  /\ SkeletonFrame

\* await sessionRef.set(...) returns: 201 with sessionId and sessionToken
SkeletonSetOk(x) ==
  LET id == x.doc.sessionId IN
  /\ x.pc = "set"
  /\ sessions' = [k \in DOMAIN sessions \cup {id} |-> IF k = id THEN x.doc ELSE sessions[k]]
  /\ skeleton' = Replace(skeleton, x,
       [x EXCEPT !.pc = "done", !.sessionId = id,
                 !.res = SkeletonResponse(201, FALSE, "", "")])
  /\ UNCHANGED <<now, attendance>>
  /\ SkeletonFrame

\* the synchronous stretch of the skeleton's checkin once getAuthUid has
\* returned uid: the token and studentId checks, then the sessions query;
\* c[1] is the clock jwt.verify reads, c[2] what Date.now() returns at line
\* 101
SkeletonAfterAuth(x, uid, c) ==
  LET tok == x.body.sessionToken
      studentId == IF uid # Missing THEN uid ELSE x.body.studentId
  IN  IF tok = NoToken
        THEN [x EXCEPT !.pc = "done", !.uid = uid,
                !.res = SkeletonResponse(400, FALSE, "sessionToken required", "")]
      ELSE IF ~Verify(tok, c[1])
        THEN [x EXCEPT !.pc = "done", !.uid = uid,
                !.res = SkeletonResponse(401, FALSE, "invalid or expired session token", "")]
      ELSE IF Falsy(tok.courseId)
        THEN [x EXCEPT !.pc = "done", !.uid = uid,
                !.res = SkeletonResponse(400, FALSE, "token missing courseId", "")]
      ELSE IF Falsy(studentId)
        THEN [x EXCEPT !.pc = "done", !.uid = uid, !.courseId = tok.courseId,
                !.res = SkeletonResponse(401, FALSE,
                          "login required (or provide studentId in emulator)", "")]
      ELSE [x EXCEPT !.pc = "findSession", !.uid = uid, !.courseId = tok.courseId,
              !.studentId = studentId, !.now = c[2]]

\* the clock after the stretch that left the call as y: line 101 is reached
\* only by a call that goes on to the sessions query
SkeletonClock(y, c) == IF y.pc = "findSession" THEN c[2] ELSE now

\* POST /checkin of the skeleton arrives: without an Authorization header
\* getAuthUid returns null at once, with one the call waits for verifyIdToken
SkeletonCheckin(b, limit) ==
  LET x == NewSkeletonCall("checkin", b) IN
  /\ BagCardinality(SkeletonCalls("checkin")) < limit
  /\ \E c \in ClockReads(2) :
       LET y == IF b.auth = "none" THEN SkeletonAfterAuth(x, Missing, c)
                ELSE [x EXCEPT !.pc = "auth"]
       IN  /\ skeleton' = skeleton (+) SetToBag({y})
           /\ now' = SkeletonClock(y, c)
  /\ UNCHANGED <<sessions, attendance>>
  /\ SkeletonFrame

\* await admin.auth().verifyIdToken(token) returns the uid, or throws and
\* getAuthUid returns null
SkeletonAuth(x) ==
  /\ x.pc = "auth"
  /\ \E c \in ClockReads(2) :
       LET y == SkeletonAfterAuth(x, IF x.body.auth = "valid" THEN "u1" ELSE Missing, c)
       IN  /\ skeleton' = Replace(skeleton, x, y)
           /\ now' = SkeletonClock(y, c)
  /\ UNCHANGED <<sessions, attendance>>
  /\ SkeletonFrame

\* v >= t of the query for a finite number t: Infinity is a number above
\* every t, NaN and a string are not
JsGe(v, t) == v.t = "infinity" \/ (v.t = "number" /\ v.n >= t)

\* a <= v in the order of the query, for two values that passed JsGe
JsLe(a, v) == v.t = "infinity" \/ (a.t = "number" /\ v.t = "number" /\ a.n <= v.n)

\* the sessions the skeleton's query can return first: those of the course
\* with expiresAt >= now, the latest expiresAt first
OpenSessions(courseId, t) ==
  LET open == {k \in DOMAIN sessions :
                 sessions[k].courseId = courseId /\ JsGe(sessions[k].expiresAt, t)}
  IN  {k \in open : \A j \in open : JsLe(sessions[j].expiresAt, sessions[k].expiresAt)}

\* the sessions query returns and the duplicate query is issued; a session
\* document without a sessionId field makes where("sessionId", "==",
\* undefined) throw
SkeletonFindSession(x) ==
  /\ x.pc = "findSession"
  /\ IF OpenSessions(x.courseId, x.now) = {}
       THEN skeleton' = Replace(skeleton, x,
              [x EXCEPT !.pc = "dupQuery", !.sessionId = "unknown-" \o x.courseId])
       ELSE \E k \in OpenSessions(x.courseId, x.now) :
              skeleton' = Replace(skeleton, x,
                IF sessions[k].sessionId = Missing
                  THEN [x EXCEPT !.pc = "done",
                          !.res = SkeletonResponse(500, FALSE, "e.message", "")]
                  ELSE [x EXCEPT !.pc = "dupQuery", !.sessionId = sessions[k].sessionId])
  /\ UNCHANGED <<now, sessions, attendance>>
  /\ SkeletonFrame

\* the duplicate query returns: one document per (studentId, sessionId)
SkeletonDupQuery(x) ==
  /\ x.pc = "dupQuery"
  /\ skeleton' = Replace(skeleton, x,
       IF \E r \in BagToSet(attendance) :
            r.studentId = x.studentId /\ r.sessionId = x.sessionId
         THEN [x EXCEPT !.pc = "done",
                 !.res = SkeletonResponse(200, TRUE, "", "already checked-in")]
         ELSE [x EXCEPT !.pc = "add",
                 !.rec = Record(x.studentId, Missing, x.courseId, x.sessionId, x.now,
                                "present", x.uid # Missing, Undef)])
  /\ UNCHANGED <<now, sessions, attendance>>
  /\ SkeletonFrame

\* await db.collection("attendance").add(rec) returns: 201 with the record
SkeletonAdd(x) ==
  /\ x.pc = "add"
  /\ attendance' = attendance (+) SetToBag({x.rec})
  /\ skeleton' = Replace(skeleton, x,
       [x EXCEPT !.pc = "done", !.res = SkeletonResponse(201, TRUE, "", "")])
  /\ UNCHANGED <<now, sessions>>
  /\ SkeletonFrame

\* a store operation of the skeleton throws: 500 with the error's message
SkeletonStoreError(x) ==
  /\ x.pc \in {"set", "findSession", "dupQuery", "add"}
  /\ skeleton' = Replace(skeleton, x,
       [x EXCEPT !.pc = "done", !.res = SkeletonResponse(500, FALSE, "e.message", "")])
  /\ UNCHANGED <<now, sessions, attendance>>
  /\ SkeletonFrame

(* --------------------------- specifications ---------------------------- *)
\* every operation, with the bodies that lead to an "out_of_range" document
\* for one student and a "present" document for the other; MaxMixedCheckins
\* check-ins run beside as many finalizations
Next ==
  \/ Tick
  \/ \E b \in FewCreateBodies : CreateSession(b, OneId)
  \/ \E c \in creating : CreateSessionOk(c)
  \/ \E c \in creating : CreateSessionFail(c)
  \/ \E b \in FewCheckinBodies : CheckinInvoke(b, MaxMixedCheckins, NotTracked)
  \/ \E x \in BagToSet(checkins) : CheckinGetSession(x)
  \/ \E x \in BagToSet(checkins) : CheckinDupQuery(x)
  \/ \E x \in BagToSet(checkins) : CheckinAdd(x)
  \/ \E x \in BagToSet(checkins) : CheckinStoreError(x)
  \/ \E b \in FinalizeBodies : FinalizeInvoke(b, MaxMixedCheckins)
  \/ \E x \in BagToSet(finals) : FinalizeReadAttendance(x)
  \/ \E x \in BagToSet(finals) : FinalizeReadStudents(x)
  \/ \E x \in BagToSet(finals) : FinalizeCommit(x)
  \/ \E x \in BagToSet(finals) : FinalizeStoreError(x)

Spec == Init /\ [][Next]_vars

\* createSession and MaxCheckins concurrent check-ins, over every kind of
\* session and of check-in body
NextCheckin ==
  \/ Tick
  \/ \E b \in CreateBodies : CreateSession(b, OneId)
  \/ \E c \in creating : CreateSessionOk(c)
  \/ \E c \in creating : CreateSessionFail(c)
  \/ \E b \in CheckinBodies : CheckinInvoke(b, MaxCheckins, NotTracked)
  \/ \E x \in BagToSet(checkins) : CheckinGetSession(x)
  \/ \E x \in BagToSet(checkins) : CheckinDupQuery(x)
  \/ \E x \in BagToSet(checkins) : CheckinAdd(x)
  \/ \E x \in BagToSet(checkins) : CheckinStoreError(x)

SpecCheckin == InitUnread /\ [][NextCheckin]_vars

\* createSession alone, over every combination of the body's fields
NextCreate ==
  \/ Tick
  \/ \E b \in AllCreateBodies : CreateSession(b, IdPool)
  \/ \E c \in creating : CreateSessionOk(c)
  \/ \E c \in creating : CreateSessionFail(c)

SpecCreate == InitUnread /\ [][NextCreate]_vars

\* createSession and MaxCheckins concurrent check-ins, over the bodies that
\* reach the distance check
NextGeofence ==
  \/ Tick
  \/ \E b \in GeofenceCreateBodies : CreateSession(b, OneId)
  \/ \E c \in creating : CreateSessionOk(c)
  \/ \E c \in creating : CreateSessionFail(c)
  \/ \E b \in GeofenceCheckinBodies : CheckinInvoke(b, MaxCheckins, NotTracked)
  \/ \E x \in BagToSet(checkins) : CheckinGetSession(x)
  \/ \E x \in BagToSet(checkins) : CheckinDupQuery(x)
  \/ \E x \in BagToSet(checkins) : CheckinAdd(x)
  \/ \E x \in BagToSet(checkins) : CheckinStoreError(x)

SpecGeofence == InitUnread /\ [][NextGeofence]_vars

\* no call is in flight
Idle ==
  /\ creating = {}
  /\ \A x \in BagToSet(checkins) : x.pc = "done"
  /\ \A x \in BagToSet(finals) : x.pc = "done"

\* no call is in flight, and fewer than MaxSerialCalls checkin and
\* finalizeSession calls have been made
Quiet == Idle /\ BagCardinality(checkins) + BagCardinality(finals) < MaxSerialCalls

\* the three operations with calls that do not overlap: a call arrives only
\* when every earlier call has been answered, so no store operation of one
\* call falls between those of another
NextSerial ==
  \/ Tick
  \/ Idle /\ \E b \in SerialCreateBodies : CreateSession(b, OneId)
  \/ \E c \in creating : CreateSessionOk(c)
  \/ \E c \in creating : CreateSessionFail(c)
  \/ Quiet /\ \E b \in SerialCheckinBodies :
                CheckinInvoke(b, MaxCheckins, ClockAgainstExpiry(b.sessionToken))
  \/ \E x \in BagToSet(checkins) : CheckinGetSession(x)
  \/ \E x \in BagToSet(checkins) : CheckinDupQuery(x)
  \/ \E x \in BagToSet(checkins) : CheckinAdd(x)
  \/ \E x \in BagToSet(checkins) : CheckinStoreError(x)
  \/ Quiet /\ \E b \in SerialFinalizeBodies : FinalizeInvoke(b, MaxFinalize)
  \/ \E x \in BagToSet(finals) : FinalizeReadAttendance(x)
  \/ \E x \in BagToSet(finals) : FinalizeReadStudents(x)
  \/ \E x \in BagToSet(finals) : FinalizeCommit(x)
  \/ \E x \in BagToSet(finals) : FinalizeStoreError(x)

SpecSerial == InitThree /\ [][NextSerial]_vars

\* the skeleton's handlers beside the createSession of src/functions/index.js,
\* over the same collections
NextSkeleton ==
  \/ Tick
  \/ \E b \in OtherCreateBodies : CreateSession(b, OneId)
  \/ \E c \in creating : CreateSessionOk(c)
  \/ \E c \in creating : CreateSessionFail(c)
  \/ \E b \in SkeletonCreateBodies : SkeletonCreateSession(b, IdPool, MaxSessions)
  \/ \E x \in BagToSet(skeleton) : SkeletonSetOk(x)
  \/ \E b \in SkeletonCheckinBodies : SkeletonCheckin(b, MaxMixedCheckins)
  \/ \E x \in BagToSet(skeleton) : SkeletonAuth(x)
  \/ \E x \in BagToSet(skeleton) : SkeletonFindSession(x)
  \/ \E x \in BagToSet(skeleton) : SkeletonDupQuery(x)
  \/ \E x \in BagToSet(skeleton) : SkeletonAdd(x)
  \/ \E x \in BagToSet(skeleton) : SkeletonStoreError(x)

SpecSkeleton == InitUnread /\ [][NextSkeleton]_vars

\* the skeleton's createSession alone, over every kind of body
NextSkeletonCreate ==
  \/ Tick
  \/ \E b \in AllSkeletonCreateBodies : SkeletonCreateSession(b, IdPool, MaxSessions + 1)
  \/ \E x \in BagToSet(skeleton) : SkeletonSetOk(x)
  \/ \E x \in BagToSet(skeleton) : SkeletonStoreError(x)

SpecSkeletonCreate == InitUnread /\ [][NextSkeletonCreate]_vars

\* the skeleton's checkin alone, over every kind of body: no session is
\* stored, so each record goes under "unknown-" and the courseId
NextSkeletonCheckin ==
  \/ Tick
  \/ \E b \in AllSkeletonCheckinBodies : SkeletonCheckin(b, MaxCheckins)
  \/ \E x \in BagToSet(skeleton) : SkeletonAuth(x)
  \/ \E x \in BagToSet(skeleton) : SkeletonFindSession(x)
  \/ \E x \in BagToSet(skeleton) : SkeletonDupQuery(x)
  \/ \E x \in BagToSet(skeleton) : SkeletonAdd(x)
  \/ \E x \in BagToSet(skeleton) : SkeletonStoreError(x)

SpecSkeletonCheckin == InitUnread /\ [][NextSkeletonCheckin]_vars

\* haversineDistance is called with the coordinates of two points
Measure(A, B) ==
  /\ measured' = [from |-> A, to |-> B,
                  meters |-> haversineDistance(A.lat.n, A.lng.n, B.lat.n, B.lng.n)]
  /\ UNCHANGED <<now, sessions, attendance, roster, createResp, checkins, finals, creating, skeleton>>

\* haversineDistance alone, over every ordered pair of Points
NextHaversine == \E A, B \in Points : Measure(A, B)

SpecHaversine == Init /\ [][NextHaversine]_vars

TypeOK ==
  /\ now \in 1..MaxNow
  /\ DOMAIN sessions \subseteq IdPool
  /\ BagCardinality(checkins) <= MaxCheckins
  /\ BagCardinality(finals) <= MaxFinalize

(* ------------------------------ claims --------------------------------- *)
DoneCheckins == {x \in BagToSet(checkins) : x.pc = "done"}

DoneFinals == {x \in BagToSet(finals) : x.pc = "done"}

\* the responses of a checkin call that wrote nothing by design
EarlyErrors == {"missing_params", "invalid_session", "session_expired", "already_checked_in"}

\* number of "present" documents for student s and session k
PresentCount(s, k) ==
  BagCardinality(SubBagOf(attendance,
    LAMBDA r : r.studentId = s /\ r.sessionId = k /\ r.status = "present"))

\* C1: in every reachable state there is at most one "present" document
\* per (studentId, sessionId) pair, concurrent check-ins included.
C1_AtMostOnePresent ==
  \A r \in BagToSet(attendance) : PresentCount(r.studentId, r.sessionId) <= 1

\* C2: a check-in that arrives when a "present" document already exists for
\* its (studentId, sessionId) pair writes nothing and answers
\* already_checked_in, unless the session has expired (session_expired, and
\* then the clock is strictly past expiresAt) or the store fails.
C2_DuplicateAfterPresent ==
  \A x \in DoneCheckins :
    x.hadPresent =>
      /\ x.wrote = 0
      /\ x.res.error \in {"already_checked_in", "session_expired", "server_error"}
      /\ x.res.error = "already_checked_in" => x.res.status = 200 /\ ~x.res.ok
      /\ x.res.error = "session_expired" => JsGt(now, x.session.expiresAt)

\* a second, in-range check-in was answered already_checked_in
C2_Witness ==
  \E x \in DoneCheckins :
    /\ x.hadPresent
    /\ x.res.error = "already_checked_in"
    /\ x.body.location = P0
    /\ PresentCount(x.body.studentId, x.body.sessionToken) = 1

\* the call computed a distance: it passed the duplicate check with a
\* well-formed location against a session that has a geofence centre
ReachedDistance(x) ==
  /\ x.pc = "done"
  /\ x.rec # NullRecord
  /\ x.res # ServerError
  /\ ValidLoc(x.body.location)
  /\ ValidLoc(x.session.location)

\* C3: a check-in whose distance is <= the session's thresholdMeters adds a
\* "present", verified document and answers success; one whose distance is
\* > thresholdMeters adds a "rejected_out_of_range", unverified document and
\* answers out_of_range with the distance and the threshold; distance ==
\* threshold is accepted.
C3_DistanceClassification ==
  \A x \in BagToSet(checkins) :
    ReachedDistance(x) =>
      LET d == DistanceTo(x.body.location, x.session)
          t == x.session.thresholdMeters.n
      IN  /\ x.rec.distanceMeters = d
          /\ BagIn(x.rec, attendance)
          /\ d.t = "number" /\ d.n <= t =>
               /\ x.rec.status = "present" /\ x.rec.verified
               /\ x.res.status = 200 /\ x.res.ok /\ x.res.verified
               /\ x.res.distanceMeters = d
          /\ d.t = "number" /\ d.n > t =>
               /\ x.rec.status = "rejected_out_of_range" /\ ~x.rec.verified
               /\ x.res.status = 400 /\ ~x.res.ok /\ x.res.error = "out_of_range"
               /\ x.res.distanceMeters = d /\ x.res.threshold = Num(t)

\* a check-in at exactly the threshold distance was accepted, beside one
\* beyond it that was rejected
C3_Witness ==
  /\ \E x \in BagToSet(checkins) :
       /\ ReachedDistance(x)
       /\ DistanceTo(x.body.location, x.session) = x.session.thresholdMeters
       /\ x.rec.status = "present"
  /\ \E x \in BagToSet(checkins) :
       /\ ReachedDistance(x)
       /\ OutOfRange(DistanceTo(x.body.location, x.session), x.session.thresholdMeters.n)
       /\ x.res.error = "out_of_range"

\* the call read a session that has no valid geofence centre and supplied a
\* well-formed location
NoGeofenceCase(x) ==
  /\ x.pc = "done"
  /\ x.session # NullSession
  /\ ~ValidLoc(x.session.location)
  /\ ValidLoc(x.body.location)

\* C4 as stated: on a session without a geofence centre every check-in that
\* supplies a location answers session_has_no_location (store failures and
\* expired sessions aside).
C4_Original ==
  \A x \in BagToSet(checkins) :
    NoGeofenceCase(x) /\ x.res.error \notin {"server_error", "session_expired"} =>
      x.res.error = "session_has_no_location"

\* C4 as amended: on a session without a geofence centre every check-in
\* that supplies a well-formed location and passes the parameter, session,
\* expiry and duplicate checks answers session_has_no_location and adds a
\* "rejected_no_session_location" document; the others answer
\* session_expired or already_checked_in and none is ever accepted.
C4_NoGeofenceRejects ==
  \A x \in BagToSet(checkins) :
    NoGeofenceCase(x) /\ x.res # ServerError =>
      /\ x.res.error \in {"session_has_no_location", "session_expired", "already_checked_in"}
      /\ x.res.error \notin EarlyErrors =>
           /\ x.res.error = "session_has_no_location" /\ x.res.status = 400
           /\ x.rec.status = "rejected_no_session_location" /\ ~x.rec.verified
           /\ x.wrote = 1 /\ BagIn(x.rec, attendance)
      /\ x.res.error = "already_checked_in" =>
           DocsOf(x.body.studentId, x.body.sessionToken) # {}
      /\ x.res.error = "session_expired" => JsGt(now, x.session.expiresAt)

\* on a session without a geofence centre, a first check-in was recorded as
\* rejected_no_session_location and a second one for the same student was
\* answered already_checked_in
C4_Witness ==
  \E x, y \in BagToSet(checkins) :
    /\ NoGeofenceCase(x) /\ NoGeofenceCase(y)
    /\ x.body.studentId = y.body.studentId
    /\ x.res.error = "session_has_no_location" /\ x.wrote = 1
    /\ y.res.error = "already_checked_in"

\* a checkin call that finishes in this step
FinishesNow(y) == y.pc = "done" /\ CopiesIn(y, checkins') > CopiesIn(y, checkins)

\* C5: a check-in that fails the parameter check, the session lookup or the
\* expiry check (expiresAt set and the clock strictly past it), or that the
\* duplicate check short-circuits, writes nothing: the step that answers it
\* leaves the attendance and sessions collections as they were, and the call
\* has written nothing before it.
C5_EarlyFailuresWriteNothing ==
  [][\A y \in BagToSet(checkins') :
       FinishesNow(y) =>
         /\ y.res.error = "missing_params" <=>
              y.body.sessionToken \in {Missing, ""} \/ y.body.studentId \in {Missing, ""}
         /\ y.res.error = "invalid_session" => y.body.sessionToken \notin DOMAIN sessions
         /\ y.res.error = "session_expired" =>
              /\ y.session = sessions[y.body.sessionToken]
              /\ y.session.expiresAt.t = "number" /\ now > y.session.expiresAt.n
         /\ y.res.error = "already_checked_in" =>
              DocsOf(y.body.studentId, y.body.sessionToken) # {}
         /\ y.res.error \in EarlyErrors =>
              /\ y.wrote = 0 /\ y.rec = NullRecord
              /\ attendance' = attendance /\ sessions' = sessions]_vars

\* one check-in was turned away as session_expired after another had
\* added a document, and one with an empty studentId was turned away
C5_Witness ==
  /\ \E x \in DoneCheckins : x.res.error = "session_expired" /\ x.wrote = 0
  /\ \E x \in DoneCheckins : x.wrote = 1
  /\ BagCardinality(attendance) = 1

\* the document status and the answer that belong together
Outcome(status) ==
  CASE status = "rejected_no_location" -> "location_required"
    [] status = "rejected_no_session_location" -> "session_has_no_location"
    [] status = "rejected_out_of_range" -> "out_of_range"
    [] status = "present" -> ""

\* C6: every check-in adds zero or one document; it adds none only when it
\* is answered missing_params, invalid_session, session_expired or
\* already_checked_in (or the store fails); every other call adds exactly
\* one document, whose status is rejected_no_location,
\* rejected_no_session_location, rejected_out_of_range or present and
\* matches the answer location_required, session_has_no_location,
\* out_of_range or success.
C6_ZeroOrOneWrite ==
  \A x \in BagToSet(checkins) :
    /\ x.wrote \in {0, 1}
    /\ x.pc # "done" => x.wrote = 0
    /\ x.pc = "done" =>
         /\ x.wrote = 0 <=> x.res.error \in EarlyErrors \cup {"server_error"}
         /\ x.wrote = 1 =>
              /\ BagIn(x.rec, attendance)
              /\ x.rec.studentId = x.body.studentId
              /\ x.rec.sessionId = x.body.sessionToken
              /\ x.rec.status \in {"rejected_no_location", "rejected_no_session_location",
                                   "rejected_out_of_range", "present"}
              /\ x.res.error = Outcome(x.rec.status)
              /\ x.res.ok <=> x.rec.status = "present"
    /\ BagCardinality(attendance) =
         BagCardinality(SubBagOf(checkins, LAMBDA y : y.wrote = 1))

\* two check-ins each added their document: one rejected as out of range,
\* one rejected for want of a location
C6_Witness ==
  /\ \E x \in DoneCheckins : x.wrote = 1 /\ x.rec.status = "rejected_out_of_range"
  /\ \E x \in DoneCheckins : x.wrote = 1 /\ x.rec.status = "rejected_no_location"
  /\ BagCardinality(attendance) = 2

\* this step turns the checkin call x into y
Advances(x, y) ==
  /\ CopiesIn(x, checkins) > CopiesIn(x, checkins')
  /\ CopiesIn(y, checkins') > CopiesIn(y, checkins)

\* C11: checkin classifies by the first failing step in the order parameter
\* check, session lookup, expiry check, duplicate check, client-location
\* check, session-geofence check, distance check, each step judged on what
\* the store holds when it runs: an expired session answers session_expired
\* whatever documents the pair has, an existing document answers
\* already_checked_in whatever the location, and a call without a valid
\* location is recorded rejected_no_location whatever the session's geofence.
C11_PipelineOrder ==
  [][/\ \A y \in BagToSet(checkins') :
          /\ BagCardinality(checkins') > BagCardinality(checkins)
          /\ CopiesIn(y, checkins') > CopiesIn(y, checkins)
          => IF y.body.sessionToken \in {Missing, ""} \/ y.body.studentId \in {Missing, ""}
               THEN y.pc = "done" /\ y.res.error = "missing_params"
               ELSE y.pc = "getSession"
     /\ \A x \in BagToSet(checkins), y \in BagToSet(checkins') :
          Advances(x, y) /\ y.res # ServerError =>
            LET k == x.body.sessionToken
                l == x.body.location
            IN  /\ x.pc = "getSession" =>
                     IF k \notin DOMAIN sessions
                       THEN y.pc = "done" /\ y.res.error = "invalid_session"
                     ELSE IF /\ sessions[k].expiresAt.t = "number"
                             /\ sessions[k].expiresAt.n # 0
                             /\ now > sessions[k].expiresAt.n
                       THEN y.pc = "done" /\ y.res.error = "session_expired"
                     ELSE y.pc = "dupQuery" /\ y.session = sessions[k]
                /\ x.pc = "dupQuery" =>
                     IF DocsOf(x.body.studentId, k) # {}
                       THEN y.pc = "done" /\ y.res.error = "already_checked_in"
                     ELSE /\ y.pc = "add"
                          /\ y.rec.status =
                               IF ~(l.t = "object" /\ TypeofNumber(l.lat) /\ TypeofNumber(l.lng))
                                 THEN "rejected_no_location"
                               ELSE IF ~ValidLoc(x.session.location)
                                 THEN "rejected_no_session_location"
                               ELSE IF OutOfRange(DistanceTo(l, x.session), Threshold(x.session))
                                 THEN "rejected_out_of_range"
                               ELSE "present"
                /\ x.pc = "add" =>
                     y.pc = "done" /\ y.wrote = 1 /\ y.res.error = Outcome(x.rec.status)]_vars

\* on a session without a valid geofence, a call without a location was
\* recorded rejected_no_location, and after the expiry a call for the same
\* pair was answered session_expired although that document existed
C11_Witness ==
  /\ \E x \in DoneCheckins :
       /\ x.rec.status = "rejected_no_location" /\ x.wrote = 1
       /\ ~ValidLoc(x.session.location)
  /\ \E x \in DoneCheckins : x.res.error = "session_expired" /\ x.hadAny

\* a call without a location, for a pair that has a document, was answered
\* already_checked_in
C11_DuplicateBeforeLocation ==
  \E x \in DoneCheckins :
    /\ x.res.error = "already_checked_in" /\ x.hadAny
    /\ ~ValidLoc(x.body.location)

\* the positions of the roster documents that name a student
RosterStudents == {i \in DOMAIN roster : roster[i].studentId \notin {Missing, ""}}

RosterIds == {roster[i].studentId : i \in RosterStudents}

\* the students with a "present" document for session k in the store now
PresentNow(k) ==
  {r.studentId : r \in {d \in DOMAIN attendance : d.sessionId = k /\ d.status = "present"}}

\* number of "absent" documents for student s and session k
AbsentCount(s, k) ==
  BagCardinality(SubBagOf(attendance,
    LAMBDA r : r.studentId = s /\ r.sessionId = k /\ r.status = "absent"))

\* number of "absent" documents for session k
AbsentTotal(k) ==
  BagCardinality(SubBagOf(attendance, LAMBDA r : r.sessionId = k /\ r.status = "absent"))

\* x is the only finalizeSession call made for its session, and it succeeded
\* with a present set P that lies within the roster
FinalizedOnce(x) ==
  /\ x.pc = "done"
  /\ x.res.ok
  /\ BagCardinality(FinalsFor(x.body.sessionId)) = 1
  /\ x.presentIds \subseteq RosterIds

\* C7: finalizeSession run once on a session, with roster students R and
\* present set P within R, adds |R| - |P| "absent" documents for the session,
\* one for each roster student not in P, and returns absentsAdded = |R| - |P|;
\* when that is zero it issues no write.
C7_SetComplement ==
  \A x \in BagToSet(finals) :
    FinalizedOnce(x) =>
      LET k == x.body.sessionId
          n == Cardinality(RosterStudents) - Cardinality(x.presentIds)
      IN  /\ x.res.absentsAdded = n
          /\ x.wrote = n
          /\ AbsentTotal(k) = n
          /\ \A s \in RosterIds :
               AbsentCount(s, k) = IF s \in x.presentIds THEN 0 ELSE 1
          /\ \A s \in x.presentIds : PresentCount(s, k) >= 1
          /\ n = 0 => x.batch = EmptyBag /\ x.wrote = 0

\* one student of the roster was present and finalizeSession, run once,
\* marked the other absent
C7_Witness ==
  \E x \in BagToSet(finals) :
    /\ FinalizedOnce(x)
    /\ x.presentIds = {"s2"}
    /\ x.res.absentsAdded = 1
    /\ AbsentCount("s1", x.body.sessionId) = 1
    /\ Len(roster) = 3

\* finalizeSession was called twice for session k, both calls succeeded and
\* both saw the present set the store holds now
FinalizedTwice(k) ==
  /\ BagCardinality(FinalsFor(k)) = 2
  /\ \A x \in BagToSet(FinalsFor(k)) :
       x.pc = "done" /\ x.res.ok /\ x.presentIds = PresentNow(k)

\* C8: finalizeSession is not idempotent: after two calls for the same
\* session with no check-in in between, every roster student without a
\* "present" document has two "absent" documents for the session, and both
\* calls returned the same absentsAdded.
C8_FinalizeTwiceDoubles ==
  \A k \in IdPool :
    FinalizedTwice(k) =>
      /\ \A s \in RosterIds :
           AbsentCount(s, k) = IF s \in PresentNow(k) THEN 0 ELSE 2
      /\ \A x \in BagToSet(FinalsFor(k)) :
           /\ x.res.absentsAdded = Cardinality(RosterIds \ PresentNow(k))
           /\ x.wrote = x.res.absentsAdded

\* two finalizations of a session with one student present left the other
\* student with two "absent" documents
C8_Witness ==
  \E k \in IdPool :
    /\ FinalizedTwice(k)
    /\ PresentNow(k) = {"s1"}
    /\ AbsentCount("s2", k) = 2
    /\ AbsentTotal(k) = 2

\* a createSession call is answered in this step
CreateAnswered == createResp' # createResp

\* the body that carries a courseId and nothing else
OnlyCourseId(b) ==
  /\ b.courseId \notin {Missing, ""}
  /\ b.startTs = Undef /\ b.expiresAt = Undef
  /\ b.location = NoLoc /\ b.thresholdMeters = Undef

\* C9: a successful createSession persists exactly one new Session, the one
\* the call built; called with only a courseId, the Session it builds has as
\* expiresAt the creation time + 900,000 ms and as startTs the current time
\* (each a reading of the clock taken while the call builds the Session,
\* startTs read first), location null and thresholdMeters 100; a supplied
\* thresholdMeters is stored as given when it is a finite number and
\* replaced by 100 otherwise.
C9_CreateDefaults ==
  [][/\ \A c \in creating' \ creating :
          /\ OnlyCourseId(c.body) =>
               /\ c.session.startTs.t = "number"
               /\ c.session.startTs.n \in now..now'
               /\ c.session.expiresAt.t = "number"
               /\ (c.session.expiresAt.n - 900000) \in c.session.startTs.n..now'
               /\ c.session.location = NoLoc
               /\ c.session.thresholdMeters = Num(100)
          /\ c.session.thresholdMeters =
               IF c.body.thresholdMeters.t = "number" THEN c.body.thresholdMeters ELSE Num(100)
     /\ CreateAnswered /\ createResp'.res.ok =>
          LET b == createResp'.body
              id == createResp'.sessionId
          IN  /\ id \notin DOMAIN sessions
              /\ DOMAIN sessions' = DOMAIN sessions \cup {id}
              /\ \A k \in DOMAIN sessions : sessions'[k] = sessions[k]
              /\ sessions'[id].courseId = b.courseId
              /\ \E c \in creating \ creating' : c.body = b /\ c.session = sessions'[id]]_vars

\* a session created from a body with only a courseId is in the store with
\* the defaults, and the clock has moved on since
C9_Witness ==
  /\ createResp.res.ok
  /\ OnlyCourseId(createResp.body)
  /\ createResp.sessionId \in DOMAIN sessions
  /\ sessions[createResp.sessionId].startTs = Num(1)
  /\ sessions[createResp.sessionId].expiresAt = Num(900001)
  /\ sessions[createResp.sessionId].location = NoLoc
  /\ sessions[createResp.sessionId].thresholdMeters = Num(100)
  /\ now > sessions[createResp.sessionId].createdAt

\* C10: createSession with a missing or empty courseId answers
\* missing_courseId and writes no Session; with a non-empty courseId and
\* every other field omitted it succeeds (unless the store fails), and the
\* sessionId and token it returns are the identifier of the persisted Session.
C10_CourseIdRequired ==
  [][CreateAnswered =>
       LET b == createResp'.body
           r == createResp'.res
           id == createResp'.sessionId
       IN  /\ b.courseId \in {Missing, ""} =>
                /\ r.status = 400 /\ ~r.ok /\ r.error = "missing_courseId"
                /\ sessions' = sessions
           /\ r.error = "missing_courseId" => b.courseId \in {Missing, ""}
           /\ ~r.ok => sessions' = sessions
           /\ OnlyCourseId(b) /\ r # ServerError =>
                /\ r.ok /\ r.status = 200
                /\ id = createResp'.token
                /\ id \in DOMAIN sessions' \ DOMAIN sessions
                /\ sessions'[id].token = id
                /\ sessions'[id] = createResp'.session]_vars

\* a createSession call with an empty courseId was turned away and the
\* sessions collection is still empty
C10_Witness ==
  /\ createResp.body.courseId = ""
  /\ createResp.res.error = "missing_courseId"
  /\ sessions = NoSessions

\* C12: the attendance collection is append-only and sessions are immutable:
\* every step of createSession, checkin and finalizeSession keeps every
\* attendance document (with its number of copies) and every session
\* document as it was, and a step of checkin or finalizeSession leaves the
\* sessions collection and the roster untouched.
C12_AppendOnly ==
  [][/\ \A r \in DOMAIN attendance : CopiesIn(r, attendance') >= CopiesIn(r, attendance)
     /\ \A k \in DOMAIN sessions : k \in DOMAIN sessions' /\ sessions'[k] = sessions[k]
     /\ (checkins' # checkins \/ finals' # finals) =>
          sessions' = sessions /\ roster' = roster]_vars

\* a check-in document and the "absent" documents of a later finalization
\* are in the store beside the session
C12_Witness ==
  /\ sessions # NoSessions
  /\ \E x \in DoneCheckins : x.wrote = 1 /\ BagIn(x.rec, attendance)
  /\ \E y \in DoneFinals :
       /\ y.wrote >= 1
       /\ y.presentIds = {"s2"}
       /\ \A r \in BagToSet(y.batch) : BagIn(r, attendance)
  /\ BagCardinality(attendance) >= 2

\* C13: every attendance document has verified = true exactly when its
\* status is "present", and carries distanceMeters exactly when its status
\* is "present" or "rejected_out_of_range".
C13_RecordShape ==
  \A r \in BagToSet(attendance) :
    /\ r.status \in {"present", "rejected_out_of_range", "rejected_no_location",
                     "rejected_no_session_location", "absent"}
    /\ r.verified <=> r.status = "present"
    /\ r.distanceMeters # Undef <=> r.status \in {"present", "rejected_out_of_range"}
    /\ r.distanceMeters # Undef => TypeofNumber(r.distanceMeters)

\* the store holds a "present", a rejected and an "absent" document
C13_Witness ==
  /\ \E r \in BagToSet(attendance) : r.status = "present" /\ r.distanceMeters = Num(45)
  /\ \E r \in BagToSet(attendance) :
       r.status = "rejected_out_of_range" /\ r.distanceMeters = Num(1103)
  /\ \E r \in BagToSet(attendance) : r.status = "absent" /\ r.distanceMeters = Undef

\* this step turns the finalizeSession call x into y
AdvancesFinal(x, y) ==
  /\ CopiesIn(x, finals) > CopiesIn(x, finals')
  /\ CopiesIn(y, finals') > CopiesIn(y, finals)

\* C14: finalizeSession derives absence only from "present" documents: when
\* its attendance read returns, presentIds is the set of students with a
\* "present" document for the session in the store at that moment, and the
\* batch built once both reads have returned holds one "absent", unverified
\* document for every roster student with a studentId outside that set
\* (whatever rejected or "absent" documents the student has) and none for a
\* student inside it; the commit adds that batch.
C14_AbsenceFromPresentOnly ==
  [][\A x \in BagToSet(finals), y \in BagToSet(finals') :
       AdvancesFinal(x, y) /\ y.res # ServerError =>
         LET k == x.body.sessionId
             present == {s \in {"s1", "s2"} :
                           \E r \in DOMAIN attendance :
                             r.studentId = s /\ r.sessionId = k /\ r.status = "present"}
         IN  /\ (x.pc = "readAttendance" \/ y.pc = "readStudents") => y.presentIds = present
             /\ x.pc = "readStudents" => y.presentIds = x.presentIds
             /\ (x.pc \in {"readAttendance", "readStudents"}) =>
                  /\ y.pc \in {"commit", "done"}
                  /\ \A i \in DOMAIN roster : roster[i].studentId \notin {Missing, ""} =>
                       LET mine == SubBagOf(y.batch,
                                     LAMBDA r : r.studentId = roster[i].studentId)
                       IN  IF roster[i].studentId \in y.presentIds
                             THEN mine = EmptyBag
                             ELSE /\ BagCardinality(mine) = 1
                                  /\ \A r \in DOMAIN mine :
                                       /\ r.status = "absent" /\ ~r.verified
                                       /\ r.sessionId = k
                                       /\ r.timestamp \in now..now'
                                       /\ r.distanceMeters = Undef
                  /\ BagCardinality(y.batch) =
                       Cardinality({i \in DOMAIN roster :
                                      /\ roster[i].studentId \notin {Missing, ""}
                                      /\ roster[i].studentId \notin y.presentIds})
             /\ x.pc # "commit" => attendance' = attendance
             /\ x.pc = "commit" =>
                  /\ attendance' = attendance (+) x.batch
                  /\ y.pc = "done" /\ y.presentIds = x.presentIds]_vars

\* s1 was present, s2 had only a rejected_out_of_range document, and a
\* finalization wrote an "absent" document for s2 alone
C14_Witness ==
  \E y \in DoneFinals :
    /\ y.res.ok /\ y.presentIds = {"s1"} /\ y.wrote = 1
    /\ \E r \in BagToSet(attendance) :
         r.studentId = "s2" /\ r.status = "rejected_out_of_range"
    /\ AbsentCount("s2", y.body.sessionId) = 1
    /\ AbsentCount("s1", y.body.sessionId) = 0

\* a student with an earlier "absent" document received another one
C14_AbsentAgain ==
  \E y \in DoneFinals : y.res.ok /\ AbsentCount("s2", y.body.sessionId) = 2

\* C15: when a store operation of createSession, checkin or finalizeSession
\* fails, the call answers 500 server_error in that step, the step writes
\* nothing, the call has written nothing before, and an answered call takes
\* no further step: nothing is retried and nothing is written afterwards.
C15_StoreFailure ==
  [][/\ \A x \in BagToSet(checkins), y \in BagToSet(checkins') :
          Advances(x, y) /\ y.res.error = "server_error" =>
            /\ x.pc \in {"getSession", "dupQuery", "add"}
            /\ y.pc = "done" /\ y.res.status = 500 /\ ~y.res.ok /\ y.wrote = 0
            /\ attendance' = attendance /\ sessions' = sessions
     /\ \A x \in BagToSet(finals), y \in BagToSet(finals') :
          AdvancesFinal(x, y) /\ y.res.error = "server_error" =>
            /\ x.pc \in {"read", "readAttendance", "readStudents", "commit"}
            /\ y.pc = "done" /\ y.res.status = 500 /\ ~y.res.ok /\ y.wrote = 0
            /\ attendance' = attendance /\ sessions' = sessions
     /\ createResp' # createResp /\ createResp'.res.error = "server_error" =>
          /\ createResp'.res.status = 500 /\ ~createResp'.res.ok
          /\ attendance' = attendance /\ sessions' = sessions
     /\ \A x \in BagToSet(checkins) :
          x.pc = "done" => CopiesIn(x, checkins') >= CopiesIn(x, checkins)
     /\ \A x \in BagToSet(finals) :
          x.pc = "done" => CopiesIn(x, finals') >= CopiesIn(x, finals)]_vars

\* a checkin failed on add() and a finalizeSession failed on commit(), and
\* the store holds no attendance document
C15_Witness ==
  /\ \E x \in DoneCheckins : x.res = ServerError /\ x.rec # NullRecord
  /\ \E y \in DoneFinals : y.res = ServerError /\ y.batch # EmptyBag
  /\ attendance = EmptyBag

\* C16: haversineDistance returns 0 for identical coordinates and is
\* symmetric: haversineDistance(A, B) = haversineDistance(B, A) for every
\* pair of (finite) coordinates A and B.
C16_HaversineSymmetric ==
  measured # NoMeasure =>
    LET A == measured.from
        B == measured.to
    IN  /\ A = B => measured.meters = 0
        /\ measured.meters = haversineDistance(B.lat.n, B.lng.n, A.lat.n, A.lng.n)
        /\ measured.meters >= 0

\* the distance between two different points was evaluated and is not zero
C16_Witness ==
  /\ measured.from = P0 /\ measured.to = P2
  /\ measured.meters = 1103

\* the distance of a point to itself was evaluated
C16_WitnessIdentical ==
  measured # NoMeasure /\ measured.from = measured.to /\ measured.meters = 0

\* number of checkin calls that added a document for student s and session k
CheckinWrites(s, k) ==
  BagCardinality(SubBagOf(checkins,
    LAMBDA y : y.wrote = 1 /\ y.body.studentId = s /\ y.body.sessionToken = k))

\* C17 as stated: with calls that do not overlap, a check-in that arrives
\* when any document exists for its (studentId, sessionId) pair answers
\* already_checked_in and writes nothing (store failures and sessions that
\* were never created aside).
C17_Original ==
  \A x \in DoneCheckins :
    x.hadAny /\ x.res.error \notin {"server_error", "invalid_session"} =>
      x.res.error = "already_checked_in" /\ x.wrote = 0

\* C17 as amended: with calls that do not overlap, a check-in that arrives
\* when any document exists for its pair writes nothing; it answers
\* already_checked_in unless an earlier step of the pipeline fails, that is
\* unless the session does not exist (invalid_session), has expired
\* (session_expired) or the store fails; so check-ins add at most one
\* document per pair.
C17_AnyStatusBlocks ==
  /\ \A x \in DoneCheckins :
       x.hadAny =>
         /\ x.wrote = 0
         /\ x.res.error \in {"already_checked_in", "invalid_session",
                              "session_expired", "server_error"}
         /\ x.res.error = "invalid_session" => x.session = NullSession
         /\ x.res.error = "session_expired" => JsGt(now, x.session.expiresAt)
         /\ x.res.error = "already_checked_in" => x.res.status = 200 /\ ~x.res.ok
  /\ \A x \in BagToSet(checkins) :
       CheckinWrites(x.body.studentId, x.body.sessionToken) <= 1

\* a rejected attempt without location was recorded, and a later in-range
\* check-in of the same student was answered already_checked_in
C17_Witness ==
  \E x \in DoneCheckins :
    /\ x.hadAny /\ ~x.hadPresent
    /\ x.body.location = P1 /\ x.session.location = P0
    /\ x.res.error = "already_checked_in"
    /\ \A r \in DocsOf(x.body.studentId, x.body.sessionToken) :
         r.status = "rejected_no_location"

\* a finalization marked a student absent, and a later check-in of that
\* student was answered already_checked_in
C17_AfterAbsent ==
  \E x \in DoneCheckins :
    /\ x.hadAny /\ x.res.error = "already_checked_in"
    /\ \A r \in DocsOf(x.body.studentId, x.body.sessionToken) : r.status = "absent"

\* C18: when checkin and finalizeSession calls do not overlap, no
\* (studentId, sessionId) pair ever has both a "present" and an "absent"
\* document, whatever the order and number of the calls.
C18_NoPresentAndAbsent ==
  \A r, q \in BagToSet(attendance) :
    r.studentId = q.studentId /\ r.sessionId = q.sessionId =>
      ~(r.status = "present" /\ q.status = "absent")

\* one student checked in, a finalization then marked only the other
\* absent, and the absent student's later check-in was turned away
C18_Witness ==
  /\ \E r \in BagToSet(attendance) : r.studentId = "s1" /\ r.status = "present"
  /\ \E q \in BagToSet(attendance) : q.studentId = "s2" /\ q.status = "absent"
  /\ \E y \in DoneFinals : y.res.ok /\ y.presentIds = {"s1"} /\ y.wrote = 1
  /\ \E x \in DoneCheckins :
       x.body.studentId = "s2" /\ x.hadAny /\ x.res.error = "already_checked_in"

\* C19: in every reachable state, every "present" document has
\* distanceMeters <= the thresholdMeters of its session and every
\* "rejected_out_of_range" document has distanceMeters > it.
C19_DistanceWithinThreshold ==
  \A r \in BagToSet(attendance) :
    r.sessionId \in DOMAIN sessions =>
      LET t == sessions[r.sessionId].thresholdMeters
          d == r.distanceMeters
      IN  /\ r.status = "present" => t.t = "number" /\ d.t = "number" /\ d.n <= t.n
          /\ r.status = "rejected_out_of_range" =>
               t.t = "number" /\ d.t = "number" /\ d.n > t.n

\* C20 as stated: a check-in that arrives when the clock equals the
\* session's expiresAt is never answered session_expired.
C20_Original ==
  \A x \in DoneCheckins : x.arrived = "at" => x.res.error # "session_expired"

\* C20 as amended: expiry is judged when the session read returns, and
\* strictly: a call whose read returns while the clock equals expiresAt
\* goes on to the duplicate check, one whose read returns after it is
\* answered session_expired; a call that arrives after expiresAt never adds
\* a document; the clock never runs backwards; finalizeSession commits its
\* batch whatever the clock.
C20_LazyStrictExpiry ==
  [][/\ \A x \in BagToSet(checkins), y \in BagToSet(checkins') :
          Advances(x, y) /\ x.pc = "getSession" /\ y.res # ServerError =>
            /\ x.body.sessionToken \in DOMAIN sessions
               /\ ClockAgainstExpiry(x.body.sessionToken) \in {"at", "open"} =>
                 y.pc = "dupQuery"
            /\ ClockAgainstExpiry(x.body.sessionToken) = "after" =>
                 y.pc = "done" /\ y.res.error = "session_expired"
     /\ \A y \in BagToSet(checkins') :
          y.arrived = "after" =>
            /\ y.wrote = 0 /\ y.pc \notin {"dupQuery", "add"}
            /\ y.pc = "done" => y.res.error \in {"session_expired", "server_error"}
     /\ now' >= now
     /\ \A x \in BagToSet(finals), y \in BagToSet(finals') :
          AdvancesFinal(x, y) /\ x.pc = "commit" /\ y.res # ServerError =>
            attendance' = attendance (+) x.batch /\ x.batch # EmptyBag]_vars

\* a check-in that arrived at the instant expiresAt was accepted, one that
\* arrived after it was answered session_expired, and a finalization after
\* the expiry added an "absent" document
C20_Witness ==
  /\ \E x \in DoneCheckins : x.arrived = "at" /\ x.rec.status = "present" /\ x.wrote = 1
  /\ \E x \in DoneCheckins :
       x.arrived = "after" /\ x.res.error = "session_expired" /\ x.wrote = 0
  /\ \E y \in DoneFinals, r \in BagToSet(attendance) :
       /\ y.res.ok /\ BagIn(r, y.batch) /\ r.status = "absent"
       /\ r.sessionId \in DOMAIN sessions
       /\ JsGt(r.timestamp, sessions[r.sessionId].expiresAt)

\* a finalization added an "absent" document before the session expired
C20_FinalizeBeforeExpiry ==
  \E y \in DoneFinals, r \in BagToSet(attendance) :
    /\ y.res.ok /\ BagIn(r, y.batch) /\ r.status = "absent"
    /\ r.sessionId \in DOMAIN sessions
    /\ sessions[r.sessionId].createdAt <= r.timestamp
    /\ ~JsGt(r.timestamp, sessions[r.sessionId].expiresAt)
====
